---- MODULE Spec2Model ----
(***************************************************************************)
(* A model of the expression evaluator of expr/expr.go: Execute, the       *)
(* recursive walk over the parse tree, the group union of two operand      *)
(* Result slices, the binary and unary operators, the dispatch of built-in *)
(* functions and the recovery of a raised failure at Execute.              *)
(*                                                                         *)
(* float64 values are modelled bit for bit: sign, 53-bit significand and   *)
(* exponent, the two zeros, the infinities and NaN, every operation        *)
(* rounding its exact result to the nearest value, ties to even.           *)
(***************************************************************************)
EXTENDS Integers, Sequences, FiniteSets, TLC

(***************************************************************************)
(* Bounds of the model.                                                    *)
(***************************************************************************)
\* most operand Results drawn for one operator node, both sides together
MaxTotal == 4

(***************************************************************************)
(* Natural numbers of any size: the digits base 2^15, lowest first, with   *)
(* no leading zero digit; zero is the empty sequence.  They carry the      *)
(* 53-bit significands of float64 and the exact intermediate results.      *)
(***************************************************************************)
Base == 32768
BZero == << >>
BOne == << 1 >>

RECURSIVE BFromNat(_)
BFromNat(n) == IF n = 0 THEN BZero ELSE << n % Base >> \o BFromNat(n \div Base)

RECURSIVE BTrim(_)
BTrim(x) ==
  IF x = << >> THEN x
  ELSE IF x[Len(x)] = 0 THEN BTrim(SubSeq(x, 1, Len(x) - 1)) ELSE x

BDigit(x, i) == IF i <= Len(x) THEN x[i] ELSE 0

RECURSIVE BAddFrom(_, _, _, _)
BAddFrom(x, y, i, carry) ==
  IF i > Len(x) /\ i > Len(y)
  THEN (IF carry = 0 THEN << >> ELSE << carry >>)
  ELSE << (BDigit(x, i) + BDigit(y, i) + carry) % Base >>
       \o BAddFrom(x, y, i + 1, (BDigit(x, i) + BDigit(y, i) + carry) \div Base)
BAdd(x, y) == BAddFrom(x, y, 1, 0)

\* x - y for x >= y
RECURSIVE BSubFrom(_, _, _, _)
BSubFrom(x, y, i, borrow) ==
  IF i > Len(x) THEN << >>
  ELSE IF x[i] - BDigit(y, i) - borrow < 0
       THEN << x[i] - BDigit(y, i) - borrow + Base >> \o BSubFrom(x, y, i + 1, 1)
       ELSE << x[i] - BDigit(y, i) - borrow >> \o BSubFrom(x, y, i + 1, 0)
BSub(x, y) == BTrim(BSubFrom(x, y, 1, 0))

\* -1, 0 or 1 as x is below, equal to or above y
RECURSIVE BCmpFrom(_, _, _)
BCmpFrom(x, y, i) ==
  IF i = 0 THEN 0
  ELSE IF x[i] < y[i] THEN -1
  ELSE IF x[i] > y[i] THEN 1
  ELSE BCmpFrom(x, y, i - 1)
BCmp(x, y) ==
  IF Len(x) < Len(y) THEN -1
  ELSE IF Len(x) > Len(y) THEN 1
  ELSE BCmpFrom(x, y, Len(x))

\* x * c for a digit c
RECURSIVE BMulSmallFrom(_, _, _, _)
BMulSmallFrom(x, c, i, carry) ==
  IF i > Len(x) THEN (IF carry = 0 THEN << >> ELSE << carry >>)
  ELSE << (x[i] * c + carry) % Base >>
       \o BMulSmallFrom(x, c, i + 1, (x[i] * c + carry) \div Base)
BMulSmall(x, c) ==
  IF c = 0 THEN BZero ELSE IF c = 1 THEN x ELSE BMulSmallFrom(x, c, 1, 0)

\* x * Base^k
BShiftDigits(x, k) ==
  IF x = << >> \/ k = 0 THEN x ELSE [i \in 1..k |-> 0] \o x

RECURSIVE BMulFrom(_, _, _)
BMulFrom(x, y, i) ==
  IF i > Len(y) THEN BZero
  ELSE BAdd(BShiftDigits(BMulSmall(x, y[i]), i - 1), BMulFrom(x, y, i + 1))
BMul(x, y) == BMulFrom(x, y, 1)

\* x * 2^k
BShl(x, k) == BShiftDigits(BMulSmall(x, 2 ^ (k % 15)), k \div 15)

\* the number of bits of a digit and of a number
RECURSIVE DigitLen(_)
DigitLen(c) == IF c = 0 THEN 0 ELSE 1 + DigitLen(c \div 2)
BBitLen(x) == IF x = << >> THEN 0 ELSE 15 * (Len(x) - 1) + DigitLen(x[Len(x)])

\* bit i of x, bit 0 the lowest
BBit(x, i) == (BDigit(x, (i \div 15) + 1) \div (2 ^ (i % 15))) % 2
BIsOdd(x) == x # << >> /\ x[1] % 2 = 1

\* the number of zero bits below the lowest set bit of x # 0, from bit i up
RECURSIVE BTrailingZeros(_, _)
BTrailingZeros(x, i) ==
  IF BDigit(x, (i \div 15) + 1) = 0 THEN BTrailingZeros(x, i + 15)
  ELSE IF BBit(x, i) = 1 THEN i
  ELSE BTrailingZeros(x, i + 1)

\* y \div p for p = 2^s, s below 15
BShrBits(y, p) ==
  BTrim([i \in 1..Len(y) |->
           (y[i] \div p) + (BDigit(y, i + 1) % p) * (Base \div p)])
\* x \div 2^k
BShr(x, k) ==
  IF k = 0 THEN x
  ELSE IF k \div 15 >= Len(x) THEN BZero
  ELSE BShrBits(SubSeq(x, (k \div 15) + 1, Len(x)), 2 ^ (k % 15))

\* the largest digit c + x, x below 2^(j+1), with (c + x) * d <= r
RECURSIVE BDigitOf(_, _, _, _)
BDigitOf(r, d, j, c) ==
  IF j < 0 THEN c
  ELSE IF BCmp(BMulSmall(d, c + 2 ^ j), r) <= 0
       THEN BDigitOf(r, d, j - 1, c + 2 ^ j)
       ELSE BDigitOf(r, d, j - 1, c)

\* one digit more of a quotient q with remainder r, the next digit of the
\* dividend being the lowest of r
BDivStep(d, q, r, c) ==
  [q |-> BTrim(<< c >> \o q), r |-> BSub(r, BMulSmall(d, c))]

\* quotient and remainder by d # 0 of the digits of n from digit i up
RECURSIVE BDivModFrom(_, _, _)
BDivModFrom(n, d, i) ==
  IF i > Len(n) - Len(d) + 1
  THEN [q |-> BZero, r |-> IF i > Len(n) THEN BZero ELSE SubSeq(n, i, Len(n))]
  ELSE LET p == BDivModFrom(n, d, i + 1)
           r == BTrim(<< n[i] >> \o p.r)
       IN  BDivStep(d, p.q, r, BDigitOf(r, d, 14, 0))
BDivMod(n, d) ==
  IF d = BOne THEN [q |-> n, r |-> BZero] ELSE BDivModFrom(n, d, 1)

(***************************************************************************)
(* float64.  A finite value is (-1)^neg * m * 2^e with m odd (m = 0 and    *)
(* e = 0 for the two zeros), which makes the record of a value unique.     *)
(***************************************************************************)
Zero(neg) == [k |-> "fin", neg |-> neg, m |-> BZero, e |-> 0]
Inf(neg) == [k |-> "inf", neg |-> neg, m |-> BZero, e |-> 0]
NaN == [k |-> "nan", neg |-> FALSE, m |-> BZero, e |-> 0]

IsNaN(x) == x.k = "nan"
IsInf(x) == x.k = "inf"
IsZero(x) == x.k = "fin" /\ x.m = BZero

\* the finite value q * 2^e, q # 0 of at most 53 bits with tz low zero bits
FinAt(neg, q, e, tz) == [k |-> "fin", neg |-> neg, m |-> BShr(q, tz), e |-> e + tz]
Fin(neg, q, e) == FinAt(neg, q, e, BTrailingZeros(q, 0))

\* the exponent of the highest bit of n / d, which is k or k - 1 for k the
\* difference of their bit lengths
BLog2At(n, d, k) ==
  IF BCmp(BShl(n, IF k < 0 THEN -k ELSE 0), BShl(d, IF k > 0 THEN k ELSE 0)) >= 0
  THEN k ELSE k - 1
BLog2(n, d) == BLog2At(n, d, BBitLen(n) - BBitLen(d))

\* the rounded significand q with the exponent last of its last bit:
\* a value from 2^1024 on is infinite
RoundEnd(neg, q, last) ==
  IF q = BZero THEN Zero(neg)
  ELSE IF BBitLen(q) + last > 1024 THEN Inf(neg)
  ELSE Fin(neg, q, last)

\* the quotient q of num by den, rounded to the nearest integer, ties to
\* the even one, by half: the remainder twice, compared with den
RoundHalf(neg, q, half, last) ==
  RoundEnd(neg,
           IF half > 0 \/ (half = 0 /\ BIsOdd(q)) THEN BAdd(q, BOne) ELSE q,
           last)
RoundQuot(neg, qr, den, last) ==
  RoundHalf(neg, qr.q, BCmp(BAdd(qr.r, qr.r), den), last)

RoundDiv(neg, num, den, last) == RoundQuot(neg, BDivMod(num, den), den, last)

\* (n / d) * 2^e2 in units of 2^last
RoundLast(neg, n, d, e2, last) ==
  RoundDiv(neg, BShl(n, IF e2 > last THEN e2 - last ELSE 0),
           BShl(d, IF last > e2 THEN last - e2 ELSE 0), last)

\* top is the exponent of the highest bit of the value: a value below
\* half of the least one, 2^-1074, is zero; the last of the 53 bits kept
\* has exponent top - 52, and -1074 at least
RoundTop(neg, n, d, e2, top) ==
  IF top < -1075 THEN Zero(neg)
  ELSE IF top > 1023 THEN Inf(neg)
  ELSE RoundLast(neg, n, d, e2, IF top - 52 < -1074 THEN -1074 ELSE top - 52)

\* the float64 nearest to (n / d) * 2^e2, ties to the even significand
Round(neg, n, d, e2) ==
  IF n = BZero THEN Zero(neg) ELSE RoundTop(neg, n, d, e2, BLog2(n, d) + e2)

\* one more than the exponent of the highest bit of a finite a # 0
FTop(a) == BBitLen(a.m) + a.e

\* the float64 of an integer constant, which is exact
RECURSIVE FOdd(_, _, _)
FOdd(neg, v, e) ==
  IF v % 2 = 0 THEN FOdd(neg, v \div 2, e + 1)
  ELSE [k |-> "fin", neg |-> neg, m |-> BFromNat(v), e |-> e]
F(i) == IF i = 0 THEN Zero(FALSE) ELSE FOdd(i < 0, IF i < 0 THEN -i ELSE i, 0)

FNeg(a) == IF IsNaN(a) THEN NaN ELSE [a EXCEPT !.neg = ~a.neg]

\* the sum of (-1)^an * x and (-1)^bn * y, in units of 2^e: of the
\* difference of x and y with the sign of the larger, when the signs differ
RECURSIVE FAddMag(_, _, _, _, _)
FAddMag(an, x, bn, y, e) ==
  IF an # bn /\ x = y THEN Zero(FALSE)
  ELSE IF an = bn THEN Round(an, BAdd(x, y), BOne, e)
  ELSE FAddMag(IF BCmp(x, y) > 0 THEN an ELSE ~an,
               IF BCmp(x, y) > 0 THEN BSub(x, y) ELSE BSub(y, x),
               IF BCmp(x, y) > 0 THEN an ELSE ~an, BZero, e)
FAddAt(a, b, e) ==
  FAddMag(a.neg, BShl(a.m, a.e - e), b.neg, BShl(b.m, b.e - e), e)

FAdd(a, b) ==
  IF IsNaN(a) \/ IsNaN(b) THEN NaN
  ELSE IF IsInf(a) /\ IsInf(b) THEN (IF a = b THEN a ELSE NaN)
  ELSE IF IsInf(a) THEN a
  ELSE IF IsInf(b) THEN b
  ELSE IF IsZero(a) /\ IsZero(b) THEN Zero(a.neg /\ b.neg)
  ELSE IF IsZero(a) THEN b
  ELSE IF IsZero(b) THEN a
  \* an operand below an eighth of the other's last bit does not change it
  ELSE IF FTop(b) < FTop(a) - 56 THEN a
  ELSE IF FTop(a) < FTop(b) - 56 THEN b
  ELSE FAddAt(a, b, IF a.e < b.e THEN a.e ELSE b.e)

FSub(a, b) == FAdd(a, FNeg(b))

FMul(a, b) ==
  IF IsNaN(a) \/ IsNaN(b) THEN NaN
  ELSE IF IsInf(a) \/ IsInf(b)
       THEN (IF IsZero(a) \/ IsZero(b) THEN NaN ELSE Inf(a.neg # b.neg))
  ELSE Round(a.neg # b.neg, BMul(a.m, b.m), BOne, a.e + b.e)

FDiv(a, b) ==
  IF IsNaN(a) \/ IsNaN(b) THEN NaN
  ELSE IF IsInf(a) THEN (IF IsInf(b) THEN NaN ELSE Inf(a.neg # b.neg))
  ELSE IF IsInf(b) THEN Zero(a.neg # b.neg)
  ELSE IF IsZero(b) THEN (IF IsZero(a) THEN NaN ELSE Inf(a.neg # b.neg))
  ELSE Round(a.neg # b.neg, a.m, b.m, a.e - b.e)

\* a == b: no NaN equals anything, the two zeros are equal
FEq(a, b) ==
  /\ ~IsNaN(a) /\ ~IsNaN(b)
  /\ (IsZero(a) /\ IsZero(b)) \/ a = b

\* |a| < |b| for a and b finite, not zero, with highest bits alike
MagLtAt(a, b, e) == BCmp(BShl(a.m, a.e - e), BShl(b.m, b.e - e)) < 0
\* |a| < |b| for a and b not NaN
MagLt(a, b) ==
  IF IsInf(a) THEN FALSE
  ELSE IF IsInf(b) THEN TRUE
  ELSE IF IsZero(b) THEN FALSE
  ELSE IF IsZero(a) THEN TRUE
  ELSE IF FTop(a) # FTop(b) THEN FTop(a) < FTop(b)
  ELSE MagLtAt(a, b, IF a.e < b.e THEN a.e ELSE b.e)

\* a < b
FLt(a, b) ==
  IF IsNaN(a) \/ IsNaN(b) THEN FALSE
  ELSE IF IsZero(a) /\ IsZero(b) THEN FALSE
  ELSE IF a.neg # b.neg THEN a.neg
  ELSE MagLt(IF a.neg THEN b ELSE a, IF a.neg THEN a ELSE b)

Bool(p) == IF p THEN F(1) ELSE F(0)

(***************************************************************************)
(* Failures.  A panic carries an error value; NoErr is "no panic".         *)
(***************************************************************************)
NoErr == "nil"
ErrUnknownOp == "expr: unknown op type"
ErrUnknownOperator(op) == "expr: unknown operator " \o op
\* a panic that is a runtime.Error, which errRecover raises again
RuntimeFault == "runtime error"

(***************************************************************************)
(* operate and uoperate: the operator tables.                              *)
(***************************************************************************)
BinaryOps == {"+", "*", "-", "/", "==", ">", "!=", "<", ">=", "<=", "||", "&&"}
UnaryOps == {"!", "-"}

Ret(r) == [err |-> NoErr, r |-> r]
Panic(e) == [err |-> e, r |-> F(0)]

\* unknownOperator with a fault: the default case returns the zero result
unknownOperatorIgnored(op) == Ret(F(0))

\* the default case of operate and of uoperate
unknownOperator(op) == Panic(ErrUnknownOperator(op))

operate(op, a, b) ==
  CASE op = "+" -> Ret(FAdd(a, b))
    [] op = "*" -> Ret(FMul(a, b))
    [] op = "-" -> Ret(FSub(a, b))
    [] op = "/" -> Ret(FDiv(a, b))
    [] op = "==" -> Ret(Bool(FEq(a, b)))
    [] op = ">" -> Ret(Bool(FLt(b, a)))
    [] op = "!=" -> Ret(Bool(~FEq(a, b)))
    [] op = "<" -> Ret(Bool(FLt(a, b)))
    [] op = ">=" -> Ret(Bool(FLt(b, a) \/ FEq(a, b)))
    [] op = "<=" -> Ret(Bool(FLt(a, b) \/ FEq(a, b)))
    [] op = "||" -> Ret(Bool(~FEq(a, F(0)) \/ ~FEq(b, F(0))))
    [] op = "&&" -> Ret(Bool(~FEq(a, F(0)) /\ ~FEq(b, F(0))))
    [] OTHER -> unknownOperator(op)

uoperate(op, a) ==
  CASE op = "!" -> Ret(Bool(FEq(a, F(0))))
    [] op = "-" -> Ret(FNeg(a))
    [] OTHER -> unknownOperator(op)

(***************************************************************************)
(* opentsdb.TagSet: a set of <<key, value>> pairs with unique keys.        *)
(***************************************************************************)
NilGroup == {}
TagLen(t) == Cardinality(t)
\* t.Equal(o): t and o hold the same k=v pairs
Equal(t, o) == t = o
\* t.Subset(o): every k=v pair of o is in t
Subset(t, o) == o \subseteq t
\* the groups of the Results drawn
GroupA == {<< "host", "a" >>}
GroupB == {<< "host", "b" >>}
GroupAProd == {<< "host", "a" >>, << "env", "prod" >>}
\* opentsdb.ReplaceTags(text, group): the text with the group's tag values
\* substituted, kept as the pair it is determined by
ReplaceTags(text, group) == [text |-> text, tags |-> group]

(***************************************************************************)
(* Values: Scalar, Number and Series.                                      *)
(***************************************************************************)
EmptySeries == [t \in {} |-> F(0)]
Scalar(x) == [type |-> "scalar", v |-> x, s |-> EmptySeries]
Number(x) == [type |-> "number", v |-> x, s |-> EmptySeries]
Series(m) == [type |-> "series", v |-> F(0), s |-> m]

(***************************************************************************)
(* Computations is a Go slice of Computation: a view [arr, len, cap] of a  *)
(* backing array of the heap (arr = 0: the nil slice).  append writes in   *)
(* place while the capacity allows and moves to a fresh array otherwise.   *)
(***************************************************************************)
Computation(text, value) == [Text |-> text, Value |-> value]
ZeroComputation == Computation(ReplaceTags("", NilGroup), F(0))
NilSlice == [arr |-> 0, len |-> 0, cap |-> 0]

\* the elements a slice shows
Elems(h, s) == [i \in 1..s.len |-> h[s.arr][i]]

\* the spare capacity the allocator adds to a grown backing array: none, or
\* room for one more element
Slacks == {0, 1}

\* capacity of the array a growing append allocates
GrowCap(oldcap, needed, slack) ==
  (IF needed > 2 * oldcap THEN needed ELSE 2 * oldcap) + slack

\* append(s, es...)
AppendSlice(h, s, es, slack) ==
  LET k == Len(es)
      n == s.len + k
  IN  IF k = 0 THEN [h |-> h, s |-> s]
      ELSE IF n <= s.cap
      THEN [h |-> [h EXCEPT ![s.arr] =
                     [i \in 1..s.cap |->
                        IF i > s.len /\ i <= n THEN es[i - s.len] ELSE @[i]]],
            s |-> [s EXCEPT !.len = n]]
      ELSE LET c == GrowCap(s.cap, n, slack)
               old == Elems(h, s)
               new == [i \in 1..c |->
                         IF i <= s.len THEN old[i]
                         ELSE IF i <= n THEN es[i - s.len]
                         ELSE ZeroComputation]
           IN  [h |-> Append(h, new),
                s |-> [arr |-> Len(h) + 1, len |-> n, cap |-> c]]

(***************************************************************************)
(* Result and Union.                                                       *)
(***************************************************************************)
Result(comps, value, group) ==
  [Computations |-> comps, Value |-> value, Group |-> group]

\* wrap(v): one Scalar Result with a nil group
wrap(v) == << Result(NilSlice, Scalar(v), NilGroup) >>

\* r.AddComputation(text, result)
AddComputation(h, r, text, result, slack) ==
  LET ap == AppendSlice(h, r.Computations,
                        << Computation(ReplaceTags(text, r.Group), result) >>,
                        slack)
  IN  [h |-> ap.h, r |-> [r EXCEPT !.Computations = ap.s]]

\* ExtendComputations with a fault: an empty u.Computations takes o's slice
\* itself instead of a copy of its elements
ExtendComputationsShared(h, u, o, slack) ==
  IF u.Computations.len = 0
  THEN [h |-> h, u |-> [u EXCEPT !.Computations = o.Computations]]
  ELSE LET ap == AppendSlice(h, u.Computations, Elems(h, o.Computations), slack)
       IN  [h |-> ap.h, u |-> [u EXCEPT !.Computations = ap.s]]

\* u.ExtendComputations(o)
ExtendComputations(h, u, o, slack) ==
  LET ap == AppendSlice(h, u.Computations, Elems(h, o.Computations), slack)
  IN  [h |-> ap.h, u |-> [u EXCEPT !.Computations = ap.s]]

\* unionGroup with a fault: the test of rb.Group against ra.Group is lost
unionGroupOneWay(ra, rb) ==
  IF Equal(ra.Group, rb.Group) \/ TagLen(ra.Group) = 0 \/ TagLen(rb.Group) = 0
  THEN [ok |-> TRUE, g |-> IF TagLen(ra.Group) = 0 THEN rb.Group ELSE ra.Group]
  ELSE IF Subset(ra.Group, rb.Group) THEN [ok |-> TRUE, g |-> ra.Group]
  ELSE [ok |-> FALSE, g |-> NilGroup]

\* unionGroup with a fault: the two subset branches take the other Group
unionGroupOtherSide(ra, rb) ==
  IF Equal(ra.Group, rb.Group) \/ TagLen(ra.Group) = 0 \/ TagLen(rb.Group) = 0
  THEN [ok |-> TRUE, g |-> IF TagLen(ra.Group) = 0 THEN rb.Group ELSE ra.Group]
  ELSE IF Subset(ra.Group, rb.Group) THEN [ok |-> TRUE, g |-> rb.Group]
  ELSE IF Subset(rb.Group, ra.Group) THEN [ok |-> TRUE, g |-> ra.Group]
  ELSE [ok |-> FALSE, g |-> NilGroup]

\* the test of union's inner loop: whether the pair (ra, rb) is combined
\* (ok) and the Group the Union gets
unionGroup(ra, rb) ==
  IF Equal(ra.Group, rb.Group) \/ TagLen(ra.Group) = 0 \/ TagLen(rb.Group) = 0
  THEN [ok |-> TRUE, g |-> IF TagLen(ra.Group) = 0 THEN rb.Group ELSE ra.Group]
  ELSE IF Subset(ra.Group, rb.Group) THEN [ok |-> TRUE, g |-> ra.Group]
  ELSE IF Subset(rb.Group, ra.Group) THEN [ok |-> TRUE, g |-> rb.Group]
  ELSE [ok |-> FALSE, g |-> NilGroup]

\* the body of union's inner loop for the pair (ra, rb): the Union it
\* emits, or none
unionPair(h, ra, rb, slack) ==
  LET u0 == [Computations |-> NilSlice, A |-> ra.Value, B |-> rb.Value,
             Group |-> unionGroup(ra, rb).g]
      e1 == ExtendComputations(h, u0, ra, slack)
      e2 == ExtendComputations(e1.h, e1.u, rb, slack)
  IN  IF unionGroup(ra, rb).ok THEN [h |-> e2.h, us |-> << e2.u >>]
      ELSE [h |-> h, us |-> << >>]

\* union's two nested loops, from pair (i, j) on, row by row
RECURSIVE unionFrom(_, _, _, _, _, _, _)
unionFrom(h, a, b, i, j, us, slack) ==
  IF i > Len(a) THEN [h |-> h, us |-> us]
  ELSE IF j > Len(b) THEN unionFrom(h, a, b, i + 1, 1, us, slack)
  ELSE LET p == unionPair(h, a[i], b[j], slack)
       IN  unionFrom(p.h, a, b, i, j + 1, us \o p.us, slack)

union(h, a, b, slack) == unionFrom(h, a, b, 1, 1, << >>, slack)

(***************************************************************************)
(* Parse tree nodes (package parse).  text is the literal of a number or   *)
(* string node, the operator of a binary or unary node and the name of a   *)
(* function node; ret is a function's declared return type.                *)
(***************************************************************************)
Node(kind, text, val, ret, args) ==
  [kind |-> kind, text |-> text, val |-> val, ret |-> ret, args |-> args]
NumberNode(text, val) == Node("number", text, val, "", << >>)
StringNode(text) == Node("string", text, F(0), "", << >>)
BinaryNode(op, l, r) == Node("binary", op, F(0), "", << l, r >>)
UnaryNode(op, arg) == Node("unary", op, F(0), "", << arg >>)
FuncNode(name, ret, args) == Node("func", name, F(0), ret, args)

\* node.String(): the text of the expression
RECURSIVE NodeString(_)
RECURSIVE JoinArgs(_, _)
JoinArgs(args, i) ==
  IF i > Len(args) THEN ""
  ELSE (IF i > 1 THEN ", " ELSE "") \o NodeString(args[i]) \o JoinArgs(args, i + 1)
NodeString(node) ==
  CASE node.kind = "binary" ->
         NodeString(node.args[1]) \o " " \o node.text \o " " \o NodeString(node.args[2])
    [] node.kind = "unary" -> node.text \o NodeString(node.args[1])
    [] node.kind = "func" -> node.text \o "(" \o JoinArgs(node.args, 1) \o ")"
    [] OTHER -> node.text

(***************************************************************************)
(* walkBinary                                                              *)
(***************************************************************************)
\* the outcome of a walk: the heap, the Results and the failure raised
Walked(h, res, err) == [h |-> h, res |-> res, err |-> err]

\* the failure of broadcasting over the samples of a Series, if any sample
\* is operated on
SeriesErr(outs) ==
  IF \E k \in DOMAIN outs : outs[k].err # NoErr
  THEN (CHOOSE e \in {outs[k].err : k \in DOMAIN outs} : e # NoErr)
  ELSE NoErr

\* unsupportedOperands with a fault: the Union is passed over
unsupportedOperandsSkipped(h) == Walked(h, << >>, NoErr)

\* the default cases of walkBinary's type switches
unsupportedOperands(h) == Walked(h, << >>, ErrUnknownOp)

\* newResult with a fault: the Group of the Union is not carried over
newResultNoGroup(v) == Result(v.Computations, Scalar(F(0)), NilGroup)

\* the Result walkBinary starts from for the Union v, its Value to be set
newResult(v) == Result(v.Computations, Scalar(F(0)), v.Group)

\* broadcastOverA with a fault: the operands of operate change places
broadcastOverASwapped(op, at, bt) ==
  [k \in DOMAIN at.s |-> operate(op, bt.v, at.s[k])]

\* the Series A against the Scalar or Number B, sample by sample
broadcastOverA(op, at, bt) ==
  [k \in DOMAIN at.s |-> operate(op, at.s[k], bt.v)]

\* the Scalar or Number A against the Series B, sample by sample
broadcastOverB(op, at, bt) ==
  [k \in DOMAIN bt.s |-> operate(op, at.v, bt.s[k])]

\* Scalar or Number against Scalar or Number once the computation is added
\* to the Result: its Value is set
binaryNumberSet(ac, value) ==
  Walked(ac.h, << [ac.r EXCEPT !.Value = value] >>, NoErr)

\* Scalar or Number against Scalar or Number: o is the outcome of operate
\* and n, built from it, the Value of the Result r
binaryNumber(h, node, r, o, n, slack) ==
  IF o.err # NoErr THEN Walked(h, << >>, o.err)
  ELSE binaryNumberSet(AddComputation(h, r, NodeString(node), o.r, slack), n)

\* a Series against a Scalar or Number: outs are the samples operated
binarySeries(h, r, outs) ==
  IF SeriesErr(outs) # NoErr THEN Walked(h, << >>, SeriesErr(outs))
  ELSE Walked(h, << [r EXCEPT !.Value =
                        Series([k \in DOMAIN outs |-> outs[k].r])] >>, NoErr)

\* walkBinary's type switches on the Values at and bt of a Union, r being
\* the Result started and o the outcome of operate on two numbers
binarySwitch(h, node, at, bt, r, o, slack) ==
  CASE at.type = "scalar" /\ bt.type = "scalar" ->
         binaryNumber(h, node, r, o, Scalar(o.r), slack)
    [] at.type = "scalar" /\ bt.type = "number" ->
         binaryNumber(h, node, r, o, Number(o.r), slack)
    [] at.type = "number" /\ bt.type = "scalar" ->
         binaryNumber(h, node, r, o, Number(o.r), slack)
    [] at.type = "number" /\ bt.type = "number" ->
         binaryNumber(h, node, r, o, Number(o.r), slack)
    [] at.type \in {"scalar", "number"} /\ bt.type = "series" ->
         binarySeries(h, r, broadcastOverB(node.text, at, bt))
    [] at.type = "series" /\ bt.type \in {"scalar", "number"} ->
         binarySeries(h, r, broadcastOverA(node.text, at, bt))
    [] OTHER -> unsupportedOperands(h)

\* the body of walkBinary's loop for the Union v
binaryOne(h, node, v, slack) ==
  binarySwitch(h, node, v.A, v.B, newResult(v),
               operate(node.text, v.A.v, v.B.v), slack)

\* walkBinary's loop over the Unions, from the k-th on; it stops at the
\* first failure
RECURSIVE binaryFrom(_, _, _, _, _, _)
\* the loop after the k-th Union, o being the outcome of its body
binaryNext(o, node, us, k, res, slack) ==
  IF o.err # NoErr THEN Walked(o.h, << >>, o.err)
  ELSE binaryFrom(o.h, node, us, k + 1, res \o o.res, slack)
binaryFrom(h, node, us, k, res, slack) ==
  IF k > Len(us) THEN Walked(h, res, NoErr)
  ELSE binaryNext(binaryOne(h, node, us[k], slack), node, us, k, res, slack)

\* walkBinary's loop over the Unions u
binaryOver(u, node, slack) == binaryFrom(u.h, node, u.us, 1, << >>, slack)

\* walkBinary once both operands are walked: ar and br are their Results
walkBinary(h, node, ar, br, slack) ==
  binaryOver(union(h, ar, br, slack), node, slack)

(***************************************************************************)
(* walkUnary                                                               *)
(***************************************************************************)
\* a Scalar or Number operated, o being the outcome of uoperate
unaryNumber(r, o, type) ==
  [err |-> o.err,
   r |-> [r EXCEPT !.Value = IF type = "scalar" THEN Scalar(o.r) ELSE Number(o.r)]]

\* a Series operated, outs being its samples operated
unarySeries(r, outs) ==
  [err |-> SeriesErr(outs),
   r |-> [r EXCEPT !.Value = Series([k \in DOMAIN outs |-> outs[k].r])]]

\* the body of walkUnary's loop for the Result r
unaryOne(node, r) ==
  CASE r.Value.type = "scalar" ->
         unaryNumber(r, uoperate(node.text, r.Value.v), "scalar")
    [] r.Value.type = "number" ->
         unaryNumber(r, uoperate(node.text, r.Value.v), "number")
    [] r.Value.type = "series" ->
         unarySeries(r, [k \in DOMAIN r.Value.s |->
                           uoperate(node.text, r.Value.s[k])])
    [] OTHER -> [err |-> ErrUnknownOp, r |-> r]

RECURSIVE unaryFrom(_, _, _, _)
\* the loop after the k-th Result, o being the outcome of its body
unaryNext(o, node, a, k, res) ==
  IF o.err # NoErr THEN [res |-> << >>, err |-> o.err]
  ELSE unaryFrom(node, a, k + 1, Append(res, o.r))
unaryFrom(node, a, k, res) ==
  IF k > Len(a) THEN [res |-> res, err |-> NoErr]
  ELSE unaryNext(unaryOne(node, a[k]), node, a, k, res)

\* walkUnary once its operand is walked: a is the operand's Results
walkUnary(h, node, a) ==
  LET o == unaryFrom(node, a, 1, << >>)
  IN  Walked(h, o.res, o.err)

(***************************************************************************)
(* Execute and errRecover                                                  *)
(***************************************************************************)
\* what a call of Execute ends with: the three values it returns, or the
\* crash of the process
Returned(r, queries, err) ==
  [r |-> r, queries |-> queries, err |-> err, crashed |-> FALSE]
Crashed == [r |-> << >>, queries |-> << >>, err |-> NoErr, crashed |-> TRUE]

\* Execute with a fault: the requests registered so far are returned with
\* the failure
ExecuteKeepsQueries(w, squeries) ==
  IF w.err = NoErr
  THEN Returned(w.res, squeries, NoErr)
  ELSE IF w.err = RuntimeFault THEN Crashed
  ELSE Returned(<< >>, squeries, w.err)

\* errRecover at the end of an Execute whose named results are r, queries
\* and err and whose walk raised e (NoErr: none)
errRecover(e, r, queries, err) ==
  IF e = NoErr THEN Returned(r, queries, err)
  ELSE IF e = RuntimeFault THEN Crashed
  ELSE Returned(r, queries, e)

\* Execute, given the outcome w of s.walk(e.Tree.Root) and the requests
\* s.queries registered during it.  A nil slice is the empty sequence.
Execute(w, squeries) ==
  IF w.err = NoErr
  THEN errRecover(NoErr, w.res, squeries, NoErr)
  ELSE errRecover(w.err, << >>, << >>, NoErr)

(***************************************************************************)
(* The evaluation state and the built-in functions.                        *)
(***************************************************************************)
\* the calls of Execute that run concurrently
Procs == {1, 2}

\* an opentsdb.Request; by is the Execute call whose built-in built it
Request(q, by) == [query |-> q, by |-> by]

\* the state Execute builds: a state with no queries
newState == [queries |-> << >>]

\* StateOf with a fault: every call works on the state of call 1
StateShared(p) == 1

\* the state object the Execute call p allocates: one of its own
StateOf(p) == p

\* e.addRequest(r)
addRequest(e, r) == [e EXCEPT !.queries = Append(@, r)]

\* an argument handed to a built-in: a string, a float64 or Results
ArgV(kind, str, f, rs) == [kind |-> kind, str |-> str, f |-> f, rs |-> rs]
ResultsArg(rs) == ArgV("results", "", F(0), rs)

\* extractScalar(res)
extractScalar(res) ==
  IF Len(res) = 1 /\ res[1].Value.type = "scalar"
  THEN ArgV("float", "", res[1].Value.v, << >>)
  ELSE ResultsArg(res)

\* the sum of the samples of a Series over the timestamps ts
RECURSIVE SumOver(_, _)
SumOver(m, ts) ==
  IF ts = {} THEN F(0)
  ELSE LET t == CHOOSE x \in ts : TRUE
       IN  FAdd(m[t], SumOver(m, ts \ {t}))

\* what the backend query of q may come to: Results, an error or a fault
SeriesCpuA == Result(NilSlice, Series([t \in {"t1", "t2"} |-> IF t = "t1" THEN F(1) ELSE F(3)]),
                     GroupA)
SeriesCpuB == Result(NilSlice, Series([t \in {"t1"} |-> F(4)]), GroupB)
NoOutcome == [res |-> << >>, err |-> NoErr]
QOutcomes ==
  { [res |-> << SeriesCpuA >>, err |-> NoErr],
    [res |-> << SeriesCpuA, SeriesCpuB >>, err |-> NoErr],
    [res |-> << >>, err |-> "q: backend error"],
    [res |-> << >>, err |-> RuntimeFault] }
OutcomesOf(name) == IF name = "q" THEN QOutcomes ELSE {NoOutcome}

\* the built-ins: q(query) registers a request and returns Series, avg(series)
\* returns one Number for each Series, merge(a, b) returns the Results of
\* both, abs(x) returns a Scalar.  The call returns the state, the Results
\* and the error.
callBuiltin(name, p, e, args, outcome) ==
  CASE name = "q" ->
         [e |-> addRequest(e, Request(args[1].str, p)),
          res |-> outcome.res, err |-> outcome.err]
    [] name = "avg" ->
         [e |-> e,
          res |-> [i \in 1..Len(args[1].rs) |->
                     LET r == args[1].rs[i]
                     IN  Result(NilSlice,
                                Number(FDiv(SumOver(r.Value.s, DOMAIN r.Value.s),
                                            F(Cardinality(DOMAIN r.Value.s)))),
                                r.Group)],
          err |-> NoErr]
    [] name = "merge" ->
         [e |-> e, res |-> args[1].rs \o args[2].rs, err |-> NoErr]
    [] name = "abs" ->
         [e |-> e,
          res |-> << Result(NilSlice,
                            Scalar(IF FLt(args[1].f, F(0)) THEN FNeg(args[1].f)
                                   ELSE args[1].f),
                            NilGroup) >>,
          err |-> IF args[1].kind = "float" THEN NoErr ELSE RuntimeFault]
    [] OTHER -> [e |-> e, res |-> << >>, err |-> RuntimeFault]

\* walkFunc's loop that adds the call's Computation to every Result of a
\* function declared to return Number
RECURSIVE addComputations(_, _, _, _, _, _)
addComputations(h, res, k, text, slack, done) ==
  IF k > Len(res) THEN Walked(h, done, NoErr)
  ELSE IF res[k].Value.type # "number" THEN Walked(h, << >>, RuntimeFault)
  ELSE LET ac == AddComputation(h, res[k], text, res[k].Value.v, slack)
       IN  addComputations(ac.h, res, k + 1, text, slack, Append(done, ac.r))

\* walkFunc once its arguments are resolved: fr is what the call returned
walkFuncAfterCall(h, node, fr, slack) ==
  IF fr.err # NoErr THEN Walked(h, << >>, fr.err)
  ELSE IF node.ret = "number"
       THEN addComputations(h, fr.res, 1, NodeString(node), slack, << >>)
  ELSE Walked(h, fr.res, NoErr)

(***************************************************************************)
(* The expressions executed.                                               *)
(***************************************************************************)
Num(i) == NumberNode(ToString(i), F(i))
Q(metric) == FuncNode("q", "series", << StringNode(metric) >>)
Avg(arg) == FuncNode("avg", "number", << arg >>)

Exprs ==
  { BinaryNode(">", Avg(Q("os.cpu")), Num(1)),
    BinaryNode("+", Q("os.cpu"), Q("os.mem")),
    UnaryNode("-", Avg(Q("os.cpu"))),
    BinaryNode("%", Avg(Q("os.cpu")), Num(2)),
    BinaryNode("*", FuncNode("abs", "scalar", << BinaryNode("-", Num(1), Num(2)) >>),
               Q("os.cpu")),
    Avg(FuncNode("merge", "series", << Q("os.cpu"), Q("os.mem") >>)),
    BinaryNode("+", Num(1), StringNode("os.cpu")) }

(***************************************************************************)
(* State.  For every call p of Execute: where it stands (pc), its tree,    *)
(* the stack of its walk (a frame holds a node and the values of its       *)
(* operands or arguments walked so far), the Results of its root (ret),    *)
(* its heap of Computations (hp), the failure in flight (panicv) and what  *)
(* Execute ended with (result).  st holds the state objects.  History:     *)
(* captures counts the failures errRecover took, registered is the         *)
(* requests the call's built-ins registered, visited the nodes it walked   *)
(* and calls the built-ins it invoked.                                     *)
(***************************************************************************)
VARIABLES pc, tree, stack, ret, st, hp, panicv, result,
          captures, registered, visited, calls

\* one application of a binary or unary operator node to operand Results
\* (opIn) and its outcome (opOut), for the properties of the operators
VARIABLES opIn, opOut

opVars == << opIn, opOut >>

walkVars == << pc, tree, stack, ret, st, hp, panicv, result,
               captures, registered, visited, calls >>

Frame(node) == [node |-> node, vals |-> << >>]
Top(p) == stack[p][Len(stack[p])]

NoTree == StringNode("")

WalkInit ==
  /\ pc = [p \in Procs |-> "idle"]
  /\ tree = [p \in Procs |-> NoTree]
  /\ stack = [p \in Procs |-> << >>]
  /\ ret = [p \in Procs |-> << >>]
  /\ st = [p \in Procs |-> newState]
  /\ hp = [p \in Procs |-> << >>]
  /\ panicv = [p \in Procs |-> NoErr]
  /\ result = [p \in Procs |-> Returned(<< >>, << >>, NoErr)]
  /\ captures = [p \in Procs |-> 0]
  /\ registered = [p \in Procs |-> << >>]
  /\ visited = [p \in Procs |-> << >>]
  /\ calls = [p \in Procs |-> << >>]

\* Raised with a fault: the failure is noted and the walk goes on
RaisedAndContinued(e) == "walking"

\* where a call stands once panic(e) is raised: it unwinds to Execute
Raised(e) == "panicking"

\* panic(e) in the walk of p
Raise(p, e) ==
  /\ pc' = [pc EXCEPT ![p] = Raised(e)]
  /\ panicv' = [panicv EXCEPT ![p] = e]
  /\ UNCHANGED << stack, ret >>

\* the stack once the walk of the top frame's node returns res: the frame
\* is left and res is the next operand of the frame below, through
\* extractScalar when that is a function's
Returning(stk, res) ==
  LET n == Len(stk)
  IN  IF n = 1 THEN << >>
      ELSE [SubSeq(stk, 1, n - 1) EXCEPT ![n - 1].vals =
              Append(@, IF stk[n - 1].node.kind = "func" THEN extractScalar(res)
                        ELSE ResultsArg(res))]

\* the walk of the top frame's node returns res
Return(p, res) ==
  /\ stack' = [stack EXCEPT ![p] = Returning(stack[p], res)]
  /\ IF Len(stack[p]) = 1
     THEN /\ ret' = [ret EXCEPT ![p] = res]
          /\ pc' = [pc EXCEPT ![p] = "finishing"]
     ELSE UNCHANGED << ret, pc >>
  /\ UNCHANGED panicv

\* e.walk(child) is called from the top frame
Call(p, child) ==
  /\ stack' = [stack EXCEPT ![p] = Append(@, Frame(child))]
  /\ visited' = [visited EXCEPT ![p] = Append(@, NodeString(child))]
  /\ UNCHANGED << pc, ret, panicv >>

Walking(p, kind) ==
  /\ pc[p] = "walking"
  /\ stack[p] # << >>
  /\ Top(p).node.kind = kind

\* Execute up to the call of s.walk(e.Tree.Root)
ExecuteStart(p) ==
  /\ pc[p] = "idle"
  /\ \E e \in Exprs :
       /\ tree' = [tree EXCEPT ![p] = e]
       /\ stack' = [stack EXCEPT ![p] = << Frame(e) >>]
       /\ visited' = [visited EXCEPT ![p] = << NodeString(e) >>]
  /\ st' = [st EXCEPT ![StateOf(p)] = newState]
  /\ pc' = [pc EXCEPT ![p] = "walking"]
  /\ UNCHANGED << opVars, ret, hp, panicv, result, captures, registered, calls >>

\* the end of the walk of a node with the outcome w: the failure is raised
\* or the Results are returned to the node above
Walk(p, w) ==
  /\ hp' = [hp EXCEPT ![p] = w.h]
  /\ IF w.err # NoErr THEN Raise(p, w.err) ELSE Return(p, w.res)

\* the walk of a function node once the built-in has returned fr
Called(p, node, fr, slack) ==
  /\ st' = [st EXCEPT ![StateOf(p)] = fr.e]
  /\ registered' = [registered EXCEPT ![p] =
                      @ \o SubSeq(fr.e.queries,
                                  Len(st[StateOf(p)].queries) + 1,
                                  Len(fr.e.queries))]
  /\ calls' = [calls EXCEPT ![p] = Append(@, node.text)]
  /\ Walk(p, walkFuncAfterCall(hp[p], node, fr, slack))

\* walk of a NumberNode
WalkNumber(p) ==
  /\ Walking(p, "number")
  /\ Return(p, wrap(Top(p).node.val))
  /\ UNCHANGED << opVars, tree, st, hp, result, captures, registered, visited, calls >>

\* walk of a node that is none of the four kinds
WalkUnknown(p) ==
  /\ Walking(p, "string")
  /\ Raise(p, "expr: unknown node type")
  /\ UNCHANGED << opVars, tree, st, hp, result, captures, registered, visited, calls >>

\* walkBinary and walkUnary: the walk of the next operand
WalkOperand(p) ==
  /\ \/ Walking(p, "binary")
     \/ Walking(p, "unary")
  /\ Len(Top(p).vals) < Len(Top(p).node.args)
  /\ Call(p, Top(p).node.args[Len(Top(p).vals) + 1])
  /\ UNCHANGED << opVars, tree, st, hp, result, captures, registered, calls >>

\* walkBinary from the union of its operands on
WalkBinaryCombine(p) ==
  /\ Walking(p, "binary")
  /\ Len(Top(p).vals) = 2
  /\ \E slack \in Slacks :
       Walk(p, walkBinary(hp[p], Top(p).node, Top(p).vals[1].rs,
                          Top(p).vals[2].rs, slack))
  /\ UNCHANGED << opVars, tree, st, result, captures, registered, visited, calls >>

\* walkUnary from its loop on
WalkUnaryApply(p) ==
  /\ Walking(p, "unary")
  /\ Len(Top(p).vals) = 1
  /\ Walk(p, walkUnary(hp[p], Top(p).node, Top(p).vals[1].rs))
  /\ UNCHANGED << opVars, tree, st, result, captures, registered, visited, calls >>

\* walkFunc: the next argument, a literal passed as it is or a
\* subexpression walked
WalkFuncArg(p) ==
  /\ Walking(p, "func")
  /\ Len(Top(p).vals) < Len(Top(p).node.args)
  /\ LET a == Top(p).node.args[Len(Top(p).vals) + 1]
         top == Len(stack[p])
     IN  IF a.kind \in {"string", "number"}
         THEN /\ stack' = [stack EXCEPT ![p][top].vals =
                             Append(@, IF a.kind = "string"
                                       THEN ArgV("string", a.text, F(0), << >>)
                                       ELSE ArgV("float", "", a.val, << >>))]
              /\ UNCHANGED << opVars, pc, ret, panicv, visited >>
         ELSE Call(p, a)
  /\ UNCHANGED << opVars, tree, st, hp, result, captures, registered, calls >>

\* walkFunc from the call of the built-in on
WalkFuncCall(p) ==
  /\ Walking(p, "func")
  /\ Len(Top(p).vals) = Len(Top(p).node.args)
  /\ \E outcome \in OutcomesOf(Top(p).node.text), slack \in Slacks :
       Called(p, Top(p).node,
              callBuiltin(Top(p).node.text, p, st[StateOf(p)], Top(p).vals,
                          outcome),
              slack)
  /\ UNCHANGED << opVars, tree, result, captures, visited >>

\* Execute once the walk has returned: queries = s.queries; return
ExecuteReturn(p) ==
  /\ pc[p] = "finishing"
  /\ result' = [result EXCEPT ![p] =
                  Execute(Walked(hp[p], ret[p], NoErr), st[StateOf(p)].queries)]
  /\ pc' = [pc EXCEPT ![p] = "returned"]
  /\ UNCHANGED << opVars, tree, stack, ret, st, hp, panicv, captures, registered,
                  visited, calls >>

\* the deferred errRecover of an Execute whose walk raised a failure
ErrRecover(p) ==
  /\ pc[p] = "panicking"
  /\ LET out == Execute(Walked(hp[p], << >>, panicv[p]), st[StateOf(p)].queries)
     IN  /\ result' = [result EXCEPT ![p] = out]
         /\ pc' = [pc EXCEPT ![p] = IF out.crashed THEN "crashed" ELSE "returned"]
  /\ captures' = [captures EXCEPT ![p] = @ + 1]
  /\ stack' = [stack EXCEPT ![p] = << >>]
  /\ UNCHANGED << opVars, tree, ret, st, hp, panicv, registered, visited, calls >>

(***************************************************************************)
(* One operator node applied to operand Results drawn from a universe.     *)
(***************************************************************************)
\* the operator tokens drawn: the recognised ones and one outside both sets
AllOps == BinaryOps \cup UnaryOps \cup {"%"}
\* the operators applied to the longer operand slices: one that does not
\* commute and one that is not recognised
WideOps == {"-", "%"}

CompA == Computation(ReplaceTags("avg(q(\"os.cpu\"))", GroupA), F(3))
CompP == Computation(ReplaceTags("avg(q(\"os.mem\"))", GroupAProd), F(0))
CompQ == Computation(ReplaceTags("avg(q(\"os.mem\")) * 2", GroupAProd), F(0))

\* the heap the operand Results live in: the first array has room for one
\* more Computation, the second is full
Heap0 == << << CompA, ZeroComputation >>, << CompP, CompQ >> >>

\* the operand Results drawn
Universe ==
  { Result(NilSlice, Scalar(F(2)), NilGroup),
    Result([arr |-> 1, len |-> 1, cap |-> 2], Number(F(3)), GroupA),
    Result([arr |-> 2, len |-> 2, cap |-> 2], Number(F(0)), GroupAProd),
    Result(NilSlice, Series([t \in {"t1", "t2"} |-> IF t = "t1" THEN F(1) ELSE F(0)]),
           GroupA),
    Result(NilSlice, Series(EmptySeries), GroupB) }

SeqsUpTo(S, n) == UNION {[1..k -> S] : k \in 0..n}
\* the pairs of operand slices holding at most n Results together
OperandPairs(n) ==
  UNION {[1..i -> Universe] \X SeqsUpTo(Universe, n - i) : i \in 0..n}

\* the operand subtrees of the node applied: calls whose Results are opIn.a
\* and opIn.b
OperandA == FuncNode("a", "series", << >>)
OperandB == FuncNode("b", "series", << >>)

\* opOut: the Unions the node's union call built (us), the outcome of the
\* node's walk (w) and what Execute ended with (ret)
NotApplied == [kind |-> "none", us |-> << >>, w |-> Walked(<< >>, << >>, NoErr),
               ret |-> Returned(<< >>, << >>, NoErr)]

OpInit ==
  /\ \/ \E ab \in OperandPairs(MaxTotal), op \in WideOps, slack \in Slacks :
          opIn = [h |-> Heap0, a |-> ab[1], b |-> ab[2], op |-> op, slack |-> slack]
     \/ \E a \in SeqsUpTo(Universe, 1), b \in SeqsUpTo(Universe, 1),
           op \in AllOps, slack \in Slacks :
          opIn = [h |-> Heap0, a |-> a, b |-> b, op |-> op, slack |-> slack]
  /\ opOut = NotApplied
  /\ WalkInit

\* the outcome of one operator node: the Unions, the walk and what Execute
\* returns for it
Applied(kind, us, w) ==
  [kind |-> kind, us |-> us, w |-> w, ret |-> Execute(w, << >>)]

\* Execute of the tree  a <op> b
ExecBinary ==
  /\ opOut.kind = "none"
  /\ opOut' = Applied("binary",
                      union(opIn.h, opIn.a, opIn.b, opIn.slack).us,
                      walkBinary(opIn.h, BinaryNode(opIn.op, OperandA, OperandB),
                                 opIn.a, opIn.b, opIn.slack))
  /\ UNCHANGED << opIn, walkVars >>

\* Execute of the tree  <op> a
ExecUnary ==
  /\ opOut.kind = "none"
  /\ opIn.b = << >>
  /\ opIn.slack = 0
  /\ opOut' = Applied("unary", << >>,
                      walkUnary(opIn.h, UnaryNode(opIn.op, OperandA), opIn.a))
  /\ UNCHANGED << opIn, walkVars >>

OpNext == ExecBinary \/ ExecUnary

vars == << opIn, opOut, walkVars >>

SpecOps == OpInit /\ [][OpNext]_vars

(***************************************************************************)
(* The calls of Execute, step by step and interleaved.                     *)
(***************************************************************************)
Init ==
  /\ WalkInit
  /\ opIn = [h |-> Heap0, a |-> << >>, b |-> << >>, op |-> "+", slack |-> 0]
  /\ opOut = NotApplied

Next ==
  \/ \E p \in Procs : ExecuteStart(p)
  \/ \E p \in Procs : WalkNumber(p)
  \/ \E p \in Procs : WalkUnknown(p)
  \/ \E p \in Procs : WalkOperand(p)
  \/ \E p \in Procs : WalkBinaryCombine(p)
  \/ \E p \in Procs : WalkUnaryApply(p)
  \/ \E p \in Procs : WalkFuncArg(p)
  \/ \E p \in Procs : WalkFuncCall(p)
  \/ \E p \in Procs : ExecuteReturn(p)
  \/ \E p \in Procs : ErrRecover(p)

Spec == Init /\ [][Next]_vars

(***************************************************************************)
(* What the claims speak of, stated from the operands alone.               *)
(***************************************************************************)
\* A is a subset of B: every key/value pair of A is also in B
IsSubsetOf(A, B) == \A kv \in A : kv \in B

Combinable(ra, rb) ==
  \/ ra.Group = rb.Group
  \/ ra.Group = {}
  \/ rb.Group = {}
  \/ IsSubsetOf(ra.Group, rb.Group)
  \/ IsSubsetOf(rb.Group, ra.Group)

\* the index pairs <<i, j>> of a and b in row-major order
RowMajor(a, b) ==
  [k \in 1..(Len(a) * Len(b)) |->
     << ((k - 1) \div Len(b)) + 1, ((k - 1) % Len(b)) + 1 >>]

\* the combinable pairs of a and b, in row-major order
CombinablePairs(a, b) ==
  SelectSeq(RowMajor(a, b), LAMBDA p : Combinable(a[p[1]], b[p[2]]))

Pairs == CombinablePairs(opIn.a, opIn.b)
PairA(k) == opIn.a[Pairs[k][1]]
PairB(k) == opIn.b[Pairs[k][2]]

AppliedBinary == opOut.kind = "binary"
AppliedUnary == opOut.kind = "unary"
BinaryDone == AppliedBinary /\ opOut.w.err = NoErr

\* C1: union emits exactly one Union for every combinable pair and none for
\* any other pair, in row-major order of (ra, rb), and raises nothing; a
\* BinaryOp that produces Results produces one per combinable pair.
C1_UnionCombinability ==
  AppliedBinary =>
    /\ Len(opOut.us) = Len(Pairs)
    /\ Len(Pairs) <= Len(opIn.a) * Len(opIn.b)
    /\ \A k \in 1..Len(Pairs) :
         /\ opOut.us[k].A = PairA(k).Value
         /\ opOut.us[k].B = PairB(k).Value
    /\ (Len(Pairs) = 0 => opOut.w.err = NoErr /\ opOut.ret.err = NoErr)
    /\ (opOut.w.err = NoErr => Len(opOut.ret.r) = Len(Pairs))

\* two operands of two Results each, some pairs combinable and some not
C1_Witness ==
  /\ BinaryDone
  /\ Len(opIn.a) = 2 /\ Len(opIn.b) = 2
  /\ Len(Pairs) \in {2, 3}
  /\ Len(opOut.ret.r) = Len(Pairs)
  /\ \E i \in 1..2, j \in 1..2 :
       /\ ~Combinable(opIn.a[i], opIn.b[j])
       /\ opIn.a[i].Group # opIn.a[3 - i].Group

\* C2: for every combinable pair, the Union's Group is the other side's
\* Group when one side's Group is empty, and the superset when one Group is
\* a strict subset of the other.
C2_GroupResolution ==
  AppliedBinary /\ Len(opOut.us) = Len(Pairs) =>
    \A k \in 1..Len(Pairs) :
      LET ga == PairA(k).Group
          gb == PairB(k).Group
          g == opOut.us[k].Group
      IN  /\ (ga = {} => g = gb)
          /\ (gb = {} => g = ga)
          /\ (ga # {} /\ ga # gb /\ IsSubsetOf(ga, gb) => g = gb)
          /\ (gb # {} /\ ga # gb /\ IsSubsetOf(gb, ga) => g = ga)

\* {host:a,env:prod} and {host:a} were combined in both orders by one call
C2_Witness ==
  /\ AppliedBinary
  /\ \E k \in 1..Len(Pairs) :
       PairA(k).Group = GroupAProd /\ PairB(k).Group = GroupA
       /\ opOut.us[k].Group = GroupAProd
  /\ \E k \in 1..Len(Pairs) :
       PairA(k).Group = GroupA /\ PairB(k).Group = GroupAProd
       /\ opOut.us[k].Group = GroupAProd

IsNum(v) == v.type \in {"scalar", "number"}

\* C8: the variant of every output Value follows from the variants of A and
\* B: Scalar with Scalar is Scalar, any other pair of Scalar and Number is
\* Number, and a Series with a Scalar or Number is a Series over the same
\* timestamps whose samples are operate(op, A side, B side).
C8_OutputVariant ==
  BinaryDone /\ Len(opOut.w.res) = Len(Pairs) =>
    \A k \in 1..Len(Pairs) :
      LET A == PairA(k).Value
          B == PairB(k).Value
          v == opOut.w.res[k].Value
      IN  /\ (A.type = "scalar" /\ B.type = "scalar" => v.type = "scalar")
          /\ (IsNum(A) /\ IsNum(B) /\ "number" \in {A.type, B.type}
                => v.type = "number")
          /\ (A.type = "series" /\ IsNum(B) =>
                /\ v.type = "series"
                /\ DOMAIN v.s = DOMAIN A.s
                /\ \A t \in DOMAIN A.s : v.s[t] = operate(opIn.op, A.s[t], B.v).r)
          /\ (IsNum(A) /\ B.type = "series" =>
                /\ v.type = "series"
                /\ DOMAIN v.s = DOMAIN B.s
                /\ \A t \in DOMAIN B.s : v.s[t] = operate(opIn.op, A.v, B.s[t]).r)

\* 2 - series and series - 3 were computed over two samples, and a Scalar
\* with a Scalar and with a Number
C8_Witness ==
  /\ BinaryDone /\ opIn.op = "-"
  /\ \E k \in 1..Len(Pairs) :
       /\ PairA(k).Value.type = "scalar" /\ PairB(k).Value.type = "series"
       /\ opOut.w.res[k].Value.s = [t \in {"t1", "t2"} |-> IF t = "t1" THEN F(1) ELSE F(2)]
  /\ \E k \in 1..Len(Pairs) :
       /\ PairA(k).Value.type = "scalar" /\ PairB(k).Value.type = "scalar"
       /\ opOut.w.res[k].Value = Scalar(F(0))
  /\ \E k \in 1..Len(Pairs) :
       /\ PairA(k).Value.type = "scalar" /\ PairB(k).Value.type = "number"
       /\ opOut.w.res[k].Value.type = "number"

\* the Group the claims give a combinable pair: the other side's when one
\* side's is empty, else the larger of the two
ResolvedGroup(ra, rb) ==
  IF ra.Group = {} THEN rb.Group
  ELSE IF rb.Group = {} THEN ra.Group
  ELSE ra.Group \cup rb.Group

\* the Series operand of the k-th pair, when exactly one side is a Series
SeriesSide(k) ==
  IF PairA(k).Value.type = "series" THEN PairA(k) ELSE PairB(k)

\* C9 as claimed: a Series output carries the Group of its Series operand,
\* whatever the Group of the Scalar or Number operand.
C9_SeriesKeepsOwnGroup ==
  BinaryDone /\ Len(opOut.w.res) = Len(Pairs) =>
    \A k \in 1..Len(Pairs) :
      opOut.w.res[k].Value.type = "series" =>
        opOut.w.res[k].Group = SeriesSide(k).Group

\* C9 as amended: every output, a Series output included, carries the
\* Union's resolved Group; a Series output has the Group of its Series
\* operand exactly when the other operand's Group is empty or within it.
C9_OutputCarriesResolvedGroup ==
  BinaryDone /\ Len(opOut.w.res) = Len(Pairs) =>
    \A k \in 1..Len(Pairs) :
      /\ opOut.w.res[k].Group = ResolvedGroup(PairA(k), PairB(k))
      /\ opOut.w.res[k].Value.type = "series" =>
           LET other == IF PairA(k).Value.type = "series" THEN PairB(k) ELSE PairA(k)
           IN  (opOut.w.res[k].Group = SeriesSide(k).Group)
                 <=> IsSubsetOf(other.Group, SeriesSide(k).Group)

\* a Series over {host:a} met a Number over {host:a,env:prod}: the output
\* Series carries the Number's Group
C9_Witness ==
  /\ BinaryDone
  /\ \E k \in 1..Len(Pairs) :
       /\ PairA(k).Value.type = "series" /\ PairA(k).Group = GroupA
       /\ PairB(k).Value.type = "number" /\ PairB(k).Group = GroupAProd
       /\ opOut.w.res[k].Value.type = "series"
       /\ opOut.w.res[k].Group = GroupAProd

OpNode == BinaryNode(opIn.op, OperandA, OperandB)

\* the Computations the claims give the k-th output Result
ExpectedComputations(k) ==
  LET r == opOut.w.res[k]
      carried == Elems(Heap0, PairA(k).Computations)
                   \o Elems(Heap0, PairB(k).Computations)
  IN  IF r.Value.type = "series" THEN carried
      ELSE Append(carried,
                  Computation(ReplaceTags(NodeString(OpNode), r.Group), r.Value.v))

\* C10: an output's Computations are ra's, then rb's, then one new entry
\* for a Scalar or Number output and none for a Series; the Computations of
\* the operands and of the Results produced earlier are left as they were.
C10_Computations ==
  AppliedBinary =>
    /\ \A i \in 1..Len(opIn.a) :
         Elems(opOut.w.h, opIn.a[i].Computations) = Elems(Heap0, opIn.a[i].Computations)
    /\ \A j \in 1..Len(opIn.b) :
         Elems(opOut.w.h, opIn.b[j].Computations) = Elems(Heap0, opIn.b[j].Computations)
    /\ BinaryDone /\ Len(opOut.w.res) = Len(Pairs) =>
         \A k \in 1..Len(Pairs) :
           Elems(opOut.w.h, opOut.w.res[k].Computations) = ExpectedComputations(k)

\* one call produced a Number with four Computations (one of ra, two of rb,
\* one new) after another Result, and a Series that carries one Computation
C10_Witness ==
  /\ BinaryDone /\ Len(Pairs) >= 2
  /\ \E k \in 2..Len(Pairs) :
       /\ opOut.w.res[k].Value.type = "number"
       /\ opOut.w.res[k].Computations.len = 4
       /\ PairA(k).Computations.len = 1
  /\ \E k \in 1..Len(Pairs) :
       /\ opOut.w.res[k].Value.type = "series"
       /\ opOut.w.res[k].Computations.len = 1

AllSeries(rs) == \A i \in 1..Len(rs) : rs[i].Value.type = "series"

\* C4 as claimed: a BinaryOp whose operands are both Series-valued fails
\* with the unsupported-operand failure, whatever their Groups.
C4_SeriesPairAlwaysFails ==
  AppliedBinary /\ Len(opIn.a) > 0 /\ Len(opIn.b) > 0
    /\ AllSeries(opIn.a) /\ AllSeries(opIn.b) =>
      opOut.ret.err = ErrUnknownOp /\ ~opOut.ret.crashed

\* C4 as amended: such a BinaryOp fails with the unsupported-operand
\* failure, returned by Execute with no Results, exactly when some pair of
\* its operand Results is combinable; when none is, Execute succeeds with
\* no Results.  The process never crashes.
C4_SeriesPairFailsWhenCombinable ==
  AppliedBinary /\ Len(opIn.a) > 0 /\ Len(opIn.b) > 0
    /\ AllSeries(opIn.a) /\ AllSeries(opIn.b) =>
      opOut.ret = Returned(<< >>, << >>,
                           IF Len(Pairs) > 0 THEN ErrUnknownOp ELSE NoErr)

\* two Series over the same Group failed, after a pair over {host:a} and
\* {host:b} was passed over
C4_Witness ==
  /\ AppliedBinary /\ AllSeries(opIn.a) /\ AllSeries(opIn.b)
  /\ Len(opIn.a) = 2 /\ Len(opIn.b) = 1
  /\ ~Combinable(opIn.a[1], opIn.b[1])
  /\ opIn.a[2].Group = GroupA /\ opIn.b[1].Group = GroupA
  /\ opOut.ret = Returned(<< >>, << >>, ErrUnknownOp)

\* a pair of Values to which walkBinary applies the operator: two numbers,
\* or a number and a Series with a sample
Operated(A, B) ==
  \/ IsNum(A) /\ IsNum(B)
  \/ A.type = "series" /\ IsNum(B) /\ DOMAIN A.s # {}
  \/ IsNum(A) /\ B.type = "series" /\ DOMAIN B.s # {}

\* a pair of Values for which walkBinary has no rule
TwoSeries(A, B) == A.type = "series" /\ B.type = "series"

\* the combinable pairs at which a BinaryOp with an unrecognised operator
\* stops, and the first of them in union order
Stopping ==
  {k \in 1..Len(Pairs) :
     \/ Operated(PairA(k).Value, PairB(k).Value)
     \/ TwoSeries(PairA(k).Value, PairB(k).Value)}
FirstStopping == CHOOSE k \in Stopping : \A j \in Stopping : k <= j

\* the operand Results to which a UnaryOp applies its operator
UnaryOperated ==
  {i \in 1..Len(opIn.a) :
     IsNum(opIn.a[i].Value) \/ DOMAIN opIn.a[i].Value.s # {}}

UnknownBinary == AppliedBinary /\ opIn.op \notin BinaryOps
UnknownUnary == AppliedUnary /\ opIn.op \notin UnaryOps

\* C5 as claimed: a BinaryOp or UnaryOp whose operator is not recognised
\* fails, whatever the shape of its operand Results.
C5_UnknownOperatorAlwaysFails ==
  UnknownBinary \/ UnknownUnary =>
    opOut.ret.err # NoErr /\ ~opOut.ret.crashed

\* C5 as amended: a BinaryOp with an unrecognised operator goes through its
\* combinable pairs in union order and stops at the first that is two
\* Series, with the unsupported-operand failure, or to which the operator
\* is applied (two numbers, or a number and a Series with a sample), with
\* the unknown-operator failure; Execute returns that failure and no
\* Results.  With no such pair Execute succeeds with one Result per
\* combinable pair.  A UnaryOp with an unrecognised operator fails with the
\* unknown-operator failure exactly when some operand Result is a number or
\* a Series with a sample, and otherwise succeeds with one Result per
\* operand Result.
C5_UnknownOperatorFailsWhenApplied ==
  /\ UnknownBinary =>
       IF Stopping # {}
       THEN opOut.ret =
              Returned(<< >>, << >>,
                       IF Operated(PairA(FirstStopping).Value,
                                   PairB(FirstStopping).Value)
                       THEN ErrUnknownOperator(opIn.op)
                       ELSE ErrUnknownOp)
       ELSE opOut.ret.err = NoErr /\ ~opOut.ret.crashed
              /\ Len(opOut.ret.r) = Len(Pairs)
  /\ UnknownUnary =>
       IF UnaryOperated # {}
       THEN opOut.ret = Returned(<< >>, << >>, ErrUnknownOperator(opIn.op))
       ELSE opOut.ret.err = NoErr /\ ~opOut.ret.crashed
              /\ Len(opOut.ret.r) = Len(opIn.a)

\* an unrecognised binary operator met a Series with samples and a Number
\* on the left and a Series on the right, all over {host:a}: the first pair
\* is two Series, and Execute returned the unsupported-operand failure
\* although the second pair would have reached the operator
C5_Witness ==
  /\ UnknownBinary
  /\ Len(opIn.a) = 2 /\ Len(opIn.b) = 1
  /\ opIn.a[1].Value.type = "series" /\ DOMAIN opIn.a[1].Value.s # {}
  /\ opIn.a[2].Value.type = "number"
  /\ opIn.b[1].Value.type = "series"
  /\ opIn.a[1].Group = GroupA /\ opIn.a[2].Group = GroupA
  /\ opIn.b[1].Group = GroupA
  /\ Len(Pairs) = 2
  /\ opOut.ret = Returned(<< >>, << >>, ErrUnknownOp)

(***************************************************************************)
(* The claims about Execute as a whole.                                    *)
(***************************************************************************)
Ended(p) == pc[p] \in {"returned", "crashed"}
DomainFailure(p) == panicv[p] \notin {NoErr, RuntimeFault}

\* C3: when a domain failure was raised in the walk, Execute returns no
\* Results, no requests and the failure as its error, also when built-ins
\* had registered requests and produced Results before; the failure is
\* captured once.
C3_FailureReturnsNothing ==
  \A p \in Procs :
    /\ captures[p] <= 1
    /\ Ended(p) /\ DomainFailure(p) =>
         /\ pc[p] = "returned"
         /\ result[p] = Returned(<< >>, << >>, panicv[p])
         /\ captures[p] = 1

\* q("os.cpu") + q("os.mem"): both built-ins registered a request and
\* returned Series, then the operator failed
C3_Witness ==
  \E p \in Procs :
    /\ pc[p] = "returned"
    /\ panicv[p] = ErrUnknownOp
    /\ Len(st[StateOf(p)].queries) = 2
    /\ calls[p] = << "q", "q" >>
    /\ result[p] = Returned(<< >>, << >>, ErrUnknownOp)

\* C6: once a failure is raised in a call, that call walks no further node,
\* invokes no built-in and registers no request.
C6_NothingAfterFailure ==
  [][\A p \in Procs :
       panicv[p] # NoErr =>
         /\ visited'[p] = visited[p]
         /\ calls'[p] = calls[p]
         /\ registered'[p] = registered[p]
         /\ st'[StateOf(p)] = st[StateOf(p)]]_vars

\* call 1 ended q("os.cpu") + q("os.mem") with the left q failed and the
\* right one never walked; call 2 ended avg(merge(q("os.cpu"), q("os.mem")))
\* with the first argument failed, the second never walked and neither
\* merge nor avg invoked
C6_Witness ==
  /\ pc[1] = "returned" /\ pc[2] = "returned"
  /\ tree[1] = BinaryNode("+", Q("os.cpu"), Q("os.mem"))
  /\ panicv[1] = "q: backend error"
  /\ visited[1] = << NodeString(tree[1]), NodeString(Q("os.cpu")) >>
  /\ calls[1] = << "q" >>
  /\ tree[2] = Avg(FuncNode("merge", "series", << Q("os.cpu"), Q("os.mem") >>))
  /\ panicv[2] = "q: backend error"
  /\ visited[2] = << NodeString(tree[2]), NodeString(tree[2].args[1]),
                     NodeString(Q("os.cpu")) >>
  /\ calls[2] = << "q" >>
  /\ registered[2] = << Request("os.cpu", 2) >>

\* C7: a call that succeeds returns the requests its own built-ins
\* registered, in the order they were registered, and none of another call.
C7_OwnRequests ==
  \A p \in Procs :
    pc[p] = "returned" /\ result[p].err = NoErr =>
      /\ result[p].queries = registered[p]
      /\ \A i \in 1..Len(result[p].queries) : result[p].queries[i].by = p

\* two calls of the same expression ran to success, each with its two
\* requests
C7_Witness ==
  /\ pc[1] = "returned" /\ pc[2] = "returned"
  /\ tree[1] = tree[2]
  /\ result[1].err = NoErr /\ result[2].err = NoErr
  /\ result[1].queries = << Request("os.cpu", 1), Request("os.mem", 1) >>
  /\ result[2].queries = << Request("os.cpu", 2), Request("os.mem", 2) >>

====
